---- MODULE Spec2Model ----
(***************************************************************************)
(* tree_magic (src/lib.rs): the checker registry, the type hierarchy graph *)
(* built by graph_init, and the specialization walk typegraph_walker with  *)
(* its entry points.                                                        *)
(*                                                                          *)
(* A MIME is a string.  A graph node is named by its MIME: graph_init      *)
(* creates one node per distinct MIME, so the NodeIndex of a node is the   *)
(* position of its MIME in graph.nodes and TYPE.hash is the inverse map.   *)
(* The checker modules (fdo_magic, index 0 of CHECKERS; basetype, index 1) *)
(* are the environment: what they list as supported, the subclass pairs    *)
(* they return and what their predicates answer for the candidate are      *)
(* inputs, fixed in the initial state.                                     *)
(***************************************************************************)
EXTENDS Integers, Sequences, FiniteSets, TLC

VARIABLES
    supported,    \* supported[i]: what CHECKERS[i].get_supported returns
    subclasses,   \* the pairs <<child, parent>> the modules' get_subclasses return
    from_u8_yes,  \* from_u8_yes[i]: the MIMEs CHECKERS[i].from_u8 answers true for
    graph,        \* TYPE.graph: nodes by NodeIndex, edges <<source, target>> as added
    hash,         \* TYPE.hash: MIME -> NodeIndex
    edge_list,    \* graph_init's set of declared edges
    edge_list_2,  \* graph_init's set of synthetic edges
    pc,           \* "start", "ready", "walk", "unwind", "done", "overflow"
    call,         \* the entry point running: [fn, arg, path]
    stack,        \* the frames of typegraph_walker, innermost last
    ret,          \* the value the frame that returned last has returned
    result,       \* what the entry point returned
    invoked,      \* the module predicates invoked by the call, in order
    log           \* the walks that have returned: [node, children, tested, result]

vars == <<supported, subclasses, from_u8_yes, graph, hash, edge_list, edge_list_2,
          pc, call, stack, ret, result, invoked, log>>

inputs == <<supported, subclasses, from_u8_yes>>
typeVars == <<graph, hash, edge_list, edge_list_2>>

---------------------------------------------------------------------------
(* MIMEs.  Universe lists them in the order String's Ord gives             *)
(* (byte-wise), the order mimelist.sort() produces.                        *)

Universe ==
    << "all/all", "all/allfiles", "application/octet-stream",
       "application/x-tar", "application/zip", "image/png",
       "inode/directory", "text/html", "text/plain" >>

Mimes == {Universe[i] : i \in 1..Len(Universe)}

\* A MIME pairs may name and no module supports.
Dangling == "application/json"

None == "None"

TYPEORDER ==
    << "image/png", "image/jpeg", "image/gif", "application/zip",
       "application/x-msdos-executable", "application/pdf" >>

\* mimetype.split("/").nth(0).unwrap_or("")
Toplevel(mimetype) ==
    CASE mimetype \in {"all/all", "all/allfiles"} -> "all"
      [] mimetype \in {"application/octet-stream", "application/x-tar",
                       "application/zip", "application/json"} -> "application"
      [] mimetype = "image/png" -> "image"
      [] mimetype = "inode/directory" -> "inode"
      [] mimetype \in {"text/html", "text/plain"} -> "text"
      [] OTHER -> ""

Range(s) == {s[i] : i \in 1..Len(s)}

\* The orders in which a HashSet may hand out its elements.
RECURSIVE Orders(_)
Orders(S) ==
    IF S = {} THEN {<<>>}
    ELSE UNION {{<<x>> \o s : s \in Orders(S \ {x})} : x \in S}

---------------------------------------------------------------------------
(* CHECKER_SUPPORT: for i in 0..CHECKERS.len(), for j in supported types,  *)
(* out.insert(j, i): a later module overwrites an earlier one.             *)

CHECKER_SUPPORT ==
    [m \in supported[0] \cup supported[1] |->
        IF m \in supported[1] THEN 1 ELSE 0]

---------------------------------------------------------------------------
(* graph_init *)

\* mimelist after extend, sort and dedup.
mimelist == SelectSeq(Universe, LAMBDA m : m \in supported[0] \cup supported[1])

\* The pairs both of whose MIMEs are in added_mimes: (child, parent) as is.
DeclaredEdges ==
    {x \in subclasses : x[2] \in Range(mimelist) /\ x[1] \in Range(mimelist)}

\* The four nodes graph_init looks up and adds when absent, in its order.
FallbackOrder ==
    << "text/plain", "application/octet-stream", "all/all", "all/allfiles" >>

Fallbacks == Range(FallbackOrder)

AllNodes == mimelist \o SelectSeq(FallbackOrder, LAMBDA m : m \notin Range(mimelist))

\* graph.externals(Incoming) of a graph with these nodes and edges, in
\* NodeIndex order: the nodes no edge points at.
Externals(nodes, edges) ==
    SelectSeq(nodes, LAMBDA n : \A e \in edges : e[2] # n)

\* SyntheticEdge without its inode branch.
SyntheticEdgeNoInode(mimenode) ==
    IF Toplevel(mimenode) = "text" THEN << "text/plain", mimenode >>
    ELSE << "application/octet-stream", mimenode >>

\* The edge the loop over graph.externals(Incoming) inserts for mimenode.
SyntheticEdge(mimenode) ==
    IF Toplevel(mimenode) = "text" THEN << "text/plain", mimenode >>
    ELSE IF Toplevel(mimenode) = "inode" THEN << "all/all", mimenode >>
    ELSE << "application/octet-stream", mimenode >>

SyntheticEdges ==
    {SyntheticEdge(n) : n \in Range(Externals(AllNodes, DeclaredEdges)) \ Fallbacks}

\* added_mimes: each node's MIME to its NodeIndex.
Hash(nodes) == [m \in Range(nodes) |-> CHOOSE i \in 1..Len(nodes) : nodes[i] = m]

\* The graph once both sets of edges are added, each in the order its
\* HashSet hands them out.
Built(nodes, declared, synthetic) ==
    /\ hash' = Hash(nodes)
    /\ edge_list' = declared
    /\ edge_list_2' = synthetic
    /\ \E o1 \in Orders(declared), o2 \in Orders(synthetic \ declared) :
          graph' = [nodes |-> nodes, edges |-> o1 \o o2]

graph_init ==
    /\ pc = "start"
    /\ Built(AllNodes, DeclaredEdges, SyntheticEdges)
    /\ pc' = "ready"
    /\ UNCHANGED <<inputs, call, stack, ret, result, invoked, log>>

---------------------------------------------------------------------------
(* The checker modules' predicates (CheckerStruct.from_u8, from_filepath). *)

\* A filepath names a readable file that holds the candidate bytes, or no
\* readable file.
Filepaths == {"file", "missing"}

CheckerFromU8(x, mimetype) == mimetype \in from_u8_yes[x]

\* The module reads the file and tests its bytes; a file it cannot read
\* matches nothing.
CheckerFromFilepath(x, filepath, mimetype) ==
    filepath = "file" /\ CheckerFromU8(x, mimetype)

---------------------------------------------------------------------------
(* match_u8, match_filepath: the value returned and the predicates invoked *)

\* match_u8 asking the first checker about a MIME CHECKER_SUPPORT lacks.
match_u8_first_checker(mimetype) ==
    LET x == IF mimetype \in DOMAIN CHECKER_SUPPORT THEN CHECKER_SUPPORT[mimetype] ELSE 0
    IN  [result |-> CheckerFromU8(x, mimetype),
         invoked |-> << <<x, "from_u8", mimetype>> >>]

match_u8(mimetype) ==
    IF mimetype \notin DOMAIN CHECKER_SUPPORT
    THEN [result |-> FALSE, invoked |-> <<>>]
    ELSE LET x == CHECKER_SUPPORT[mimetype]
         IN  [result |-> CheckerFromU8(x, mimetype),
              invoked |-> << <<x, "from_u8", mimetype>> >>]

match_filepath(mimetype, filepath) ==
    IF mimetype \notin DOMAIN CHECKER_SUPPORT
    THEN [result |-> FALSE, invoked |-> <<>>]
    ELSE LET x == CHECKER_SUPPORT[mimetype]
         IN  [result |-> CheckerFromFilepath(x, filepath, mimetype),
              invoked |-> << <<x, "from_filepath", mimetype>> >>]

\* (matchfn)(mimetype, input.clone()) of the walk the call runs.
matchfn(mimetype) ==
    IF call.fn \in {"from_u8", "from_u8_node"}
    THEN match_u8(mimetype)
    ELSE match_filepath(mimetype, call.path)

---------------------------------------------------------------------------
(* typegraph_walker *)

Reverse(s) == [i \in 1..Len(s) |-> s[Len(s) + 1 - i]]

\* TYPE.graph.neighbors_directed(parentnode, Outgoing).collect(): the
\* targets of parentnode's edges, the edge added last first.
Neighbors(parentnode) ==
    LET out == SelectSeq(graph.edges, LAMBDA e : e[1] = parentnode)
    IN  Reverse([i \in 1..Len(out) |-> out[i][2]])

InTypeOrder(x) == x \in Range(TYPEORDER)

RemoveAt(s, i) == SubSeq(s, 1, i - 1) \o SubSeq(s, i + 1, Len(s))

\* ReorderLoop keeping the children in TYPEORDER in the order enumerated.
ReorderLoopStable(children, i) ==
    SelectSeq(children, InTypeOrder)
    \o SelectSeq(children, LAMBDA x : ~InTypeOrder(x))

\* for i in 0..children.len(): a child in TYPEORDER is removed and
\* inserted at the front.
RECURSIVE ReorderLoop(_, _)
ReorderLoop(children, i) ==
    IF i > Len(children) THEN children
    ELSE LET x == children[i]
         IN  IF InTypeOrder(x)
             THEN ReorderLoop(<<x>> \o RemoveAt(children, i), i + 1)
             ELSE ReorderLoop(children, i + 1)

\* Reorder leaving the children as enumerated.
ReorderNone(children) == children

Reorder(children) == ReorderLoop(children, 1)

\* A call of typegraph_walker(parentnode, ..): its children as reordered,
\* the index of the child the for loop is at, the children tested so far.
Frame(parentnode) ==
    [node |-> parentnode, children |-> Reorder(Neighbors(parentnode)),
     i |-> 1, tested |-> <<>>]

\* ReturnValue without the deeper match.
ReturnValueShallow(sub, mimetype) == mimetype

\* ReturnValue without the child's own type.
ReturnValueNone(sub, mimetype) == sub

\* What a call returns once the walk into the child that matched has
\* returned sub: Some(foundtype) => Some(foundtype), None => Some(mimetype).
ReturnValue(sub, mimetype) == IF sub # None THEN sub ELSE mimetype

Top == stack[Len(stack)]
Pop == SubSeq(stack, 1, Len(stack) - 1)
OnStack(n) == \E k \in 1..Len(stack) : stack[k].node = n

Returned(f, value) ==
    [node |-> f.node, children |-> f.children, tested |-> f.tested, result |-> value]

\* The child tested does not match: continue.
TestFalse ==
    /\ pc = "walk"
    /\ Top.i <= Len(Top.children)
    /\ LET mimetype == Top.children[Top.i]
           m == matchfn(mimetype)
       IN  /\ ~m.result
           /\ invoked' = invoked \o m.invoked
           /\ stack' = [stack EXCEPT ![Len(stack)] =
                          [@ EXCEPT !.i = @ + 1, !.tested = Append(@, mimetype)]]
    /\ UNCHANGED <<inputs, typeVars, pc, call, ret, result, log>>

\* The child tested matches: typegraph_walker(childnode, input, matchfn).
TestTrue ==
    /\ pc = "walk"
    /\ Top.i <= Len(Top.children)
    /\ LET mimetype == Top.children[Top.i]
           m == matchfn(mimetype)
       IN  /\ m.result
           /\ ~OnStack(mimetype)
           /\ invoked' = invoked \o m.invoked
           /\ stack' = Append([stack EXCEPT ![Len(stack)] =
                                 [@ EXCEPT !.tested = Append(@, mimetype)]],
                              Frame(mimetype))
    /\ UNCHANGED <<inputs, typeVars, pc, call, ret, result, log>>

\* The child that matches is a node a call on the stack is already walking
\* from.  The predicates answer the same again, so that call's tests repeat
\* without end, each in a new frame: the recursion never returns and the
\* thread's stack overflows.
TestTrueAgain ==
    /\ pc = "walk"
    /\ Top.i <= Len(Top.children)
    /\ LET mimetype == Top.children[Top.i]
           m == matchfn(mimetype)
       IN  /\ m.result
           /\ OnStack(mimetype)
           /\ invoked' = invoked \o m.invoked
           /\ stack' = [stack EXCEPT ![Len(stack)] =
                          [@ EXCEPT !.tested = Append(@, mimetype)]]
    /\ pc' = "overflow"
    /\ UNCHANGED <<inputs, typeVars, call, ret, result, log>>

\* The for loop ends with no child matching: None.
ReturnNone ==
    /\ pc = "walk"
    /\ Top.i > Len(Top.children)
    /\ ret' = None
    /\ log' = log \cup {Returned(Top, None)}
    /\ stack' = Pop
    /\ IF Len(stack) = 1
       THEN pc' = "done" /\ result' = None
       ELSE pc' = "unwind" /\ UNCHANGED result
    /\ UNCHANGED <<inputs, typeVars, call, invoked>>

\* The walk into the child that matched has returned: return Some(..).
ReturnSome ==
    /\ pc = "unwind"
    /\ LET value == ReturnValue(ret, Top.children[Top.i])
       IN  /\ ret' = value
           /\ log' = log \cup {Returned(Top, value)}
           /\ IF Len(stack) = 1
              THEN pc' = "done" /\ result' = value
              ELSE UNCHANGED <<pc, result>>
    /\ stack' = Pop
    /\ UNCHANGED <<inputs, typeVars, call, invoked>>

typegraph_walker ==
    \/ TestFalse
    \/ TestTrue
    \/ TestTrueAgain
    \/ ReturnNone
    \/ ReturnSome

---------------------------------------------------------------------------
(* The entry points *)

\* TYPE.graph.externals(Incoming) of the graph as built.
Roots == Externals(graph.nodes, Range(graph.edges))

Start(fn, arg, path, node) ==
    /\ call' = [fn |-> fn, arg |-> arg, path |-> path]
    /\ stack' = <<Frame(node)>>
    /\ pc' = "walk"
    /\ UNCHANGED <<inputs, typeVars, ret, result, invoked, log>>

\* externals(Incoming).next() is None: return None.
NoRoot(fn, path) ==
    /\ call' = [fn |-> fn, arg |-> "", path |-> path]
    /\ result' = None
    /\ pc' = "done"
    /\ UNCHANGED <<inputs, typeVars, stack, ret, invoked, log>>

from_u8 ==
    /\ pc = "ready"
    /\ IF Roots = <<>> THEN NoRoot("from_u8", "")
       ELSE Start("from_u8", "", "", Roots[1])

from_filepath ==
    /\ pc = "ready"
    /\ \E filepath \in Filepaths :
          IF Roots = <<>> THEN NoRoot("from_filepath", filepath)
          ELSE Start("from_filepath", "", filepath, Roots[1])

from_u8_node ==
    /\ pc = "ready"
    /\ \E parentnode \in DOMAIN hash :
          Start("from_u8_node", parentnode, "", parentnode)

from_filepath_node ==
    /\ pc = "ready"
    /\ \E parentnode \in DOMAIN hash, filepath \in Filepaths :
          Start("from_filepath_node", parentnode, filepath, parentnode)

\* A direct call of match_u8.
call_match_u8 ==
    /\ pc = "ready"
    /\ \E mimetype \in Mimes \cup {Dangling} :
          LET m == match_u8(mimetype)
          IN  /\ call' = [fn |-> "match_u8", arg |-> mimetype, path |-> ""]
              /\ result' = m.result
              /\ invoked' = m.invoked
    /\ pc' = "done"
    /\ UNCHANGED <<inputs, typeVars, stack, ret, log>>

\* A direct call of match_filepath.
call_match_filepath ==
    /\ pc = "ready"
    /\ \E mimetype \in Mimes \cup {Dangling}, filepath \in Filepaths :
          LET m == match_filepath(mimetype, filepath)
          IN  /\ call' = [fn |-> "match_filepath", arg |-> mimetype, path |-> filepath]
              /\ result' = m.result
              /\ invoked' = m.invoked
    /\ pc' = "done"
    /\ UNCHANGED <<inputs, typeVars, stack, ret, log>>

---------------------------------------------------------------------------
(* The specifications.  Spec runs one call after graph_init, on the types  *)
(* and pairs of a small registry; SpecGraph runs graph_init alone, on a    *)
(* larger one.                                                             *)

MaxFdo == 3
MaxBase == 1
MaxPairs == 1
GraphMaxFdo == 2
GraphMaxBase == 1
GraphMaxPairs == 2

FdoMimes == {"application/octet-stream", "application/x-tar", "application/zip",
             "image/png"}
BaseMimes == {"application/octet-stream"}
GraphFdoMimes == {"application/x-tar", "image/png", "text/html", "text/plain"}
GraphBaseMimes == {"all/all", "all/allfiles", "application/octet-stream",
                   "inode/directory", "text/plain"}

\* The subsets of S of at most n elements.
RECURSIVE Bounded(_, _)
Bounded(S, n) ==
    IF n = 0 THEN {{}}
    ELSE LET B == Bounded(S, n - 1)
         IN  B \cup {T \cup {x} : T \in B, x \in S}

\* The modules support f and b and return at most maxPairs pairs over the
\* MIMEs they support and those of others.
Registry(f, b, others, maxPairs) ==
    /\ supported = [i \in 0..1 |-> IF i = 0 THEN f ELSE b]
    /\ subclasses \in Bounded((f \cup b \cup others) \X (f \cup b \cup others), maxPairs)

\* Each module's from_u8 answers true for some of the MIMEs it supports.
Answers(f, b) ==
    \E y0 \in SUBSET f, y1 \in SUBSET b :
        from_u8_yes = [i \in 0..1 |-> IF i = 0 THEN y0 ELSE y1]

NotStarted ==
    /\ graph = [nodes |-> <<>>, edges |-> <<>>]
    /\ hash = <<>>
    /\ edge_list = {}
    /\ edge_list_2 = {}
    /\ pc = "start"
    /\ call = [fn |-> "", arg |-> "", path |-> ""]
    /\ stack = <<>>
    /\ ret = None
    /\ result = None
    /\ invoked = <<>>
    /\ log = {}

Init ==
    /\ \E f \in Bounded(FdoMimes, MaxFdo), b \in Bounded(BaseMimes, MaxBase) :
          Registry(f, b, {}, MaxPairs) /\ Answers(f, b)
    /\ NotStarted

InitGraph ==
    /\ \E f \in Bounded(GraphFdoMimes, GraphMaxFdo), b \in Bounded(GraphBaseMimes, GraphMaxBase) :
          Registry(f, b, {Dangling}, GraphMaxPairs) /\ Answers({}, {})
    /\ NotStarted

Next ==
    \/ graph_init
    \/ from_u8
    \/ from_filepath
    \/ from_u8_node
    \/ from_filepath_node
    \/ call_match_u8
    \/ call_match_filepath
    \/ typegraph_walker

Spec == Init /\ [][Next]_vars

SpecGraph == InitGraph /\ [][graph_init]_vars

---------------------------------------------------------------------------
(* What the claims speak of. *)

Nodes == Range(graph.nodes)
Edges == Range(graph.edges)
Children(n) == {e[2] : e \in {d \in Edges : d[1] = n}}
Supported == supported[0] \cup supported[1]

RECURSIVE Closure(_)
Closure(S) ==
    LET T == S \cup UNION {Children(n) : n \in S}
    IN  IF T = S THEN S ELSE Closure(T)

\* The nodes a path of one edge or more leads to from n.
Descendants(n) == Closure(Children(n))

\* A type of the fixed priority list, as the claims name it.
InPriorityList(x) ==
    x \in {"image/png", "image/jpeg", "image/gif", "application/zip",
           "application/x-msdos-executable", "application/pdf"}

\* The module that owns T answers true for T and the candidate bytes.
BytesMatch(T) == T \in Supported /\ CheckerFromU8(CHECKER_SUPPORT[T], T)

\* The test the running call's walk makes of a child.
Matches(c) == matchfn(c).result

Walking == call.fn \in {"from_u8", "from_u8_node", "from_filepath", "from_filepath_node"}

\* The calls of typegraph_walker seen so far: those running and those returned.
Calls ==
    {[node |-> stack[k].node, children |-> stack[k].children] : k \in 1..Len(stack)}
    \cup {[node |-> r.node, children |-> r.children] : r \in log}

Pos(s, x) == CHOOSE i \in 1..Len(s) : s[i] = x

\* The index of the first child in test order that matches, 0 when none does.
FirstMatch(children) ==
    IF \E i \in 1..Len(children) : Matches(children[i])
    THEN CHOOSE i \in 1..Len(children) :
            Matches(children[i]) /\ \A j \in 1..(i - 1) : ~Matches(children[j])
    ELSE 0

---------------------------------------------------------------------------
(* C1.  from_u8 never returns None, whatever the modules declare and       *)
(* whatever their predicates answer.                                       *)
C1_NeverNone ==
    (pc = "done" /\ call.fn = "from_u8") => result # None

---------------------------------------------------------------------------
(* C2.  If the byte-predicate is true for a supported type T and false for *)
(* every descendant of T, from_u8, started from the root that reaches T,   *)
(* returns exactly T.                                                      *)
C2_ReturnsDeepest ==
    (pc = "done" /\ call.fn = "from_u8" /\ Roots # <<>>) =>
        \A T \in Supported \cap Descendants(Roots[1]) :
            (BytesMatch(T) /\ \A d \in Descendants(T) : ~BytesMatch(d))
                => result = T

\* A path leads from n to T on which every node after n matches and is the
\* only child of the node before it that does.
RECURSIVE OnlyPath(_, _, _)
OnlyPath(n, T, fuel) ==
    \/ n = T
    \/ /\ fuel > 0
       /\ \E c \in Children(n) :
             /\ BytesMatch(c)
             /\ \A d \in Children(n) : BytesMatch(d) => d = c
             /\ OnlyPath(c, T, fuel - 1)

(* C2, amended.  If the byte-predicate is true for a supported type T and  *)
(* false for every descendant of T, and a path leads from the root to T on *)
(* which every node below the root matches and no other child of the node  *)
(* above it does, from_u8 returns exactly T.                               *)
C2_ReturnsDeepestOnOnlyPath ==
    (pc = "done" /\ call.fn = "from_u8" /\ Roots # <<>>) =>
        \A T \in Supported \cap Descendants(Roots[1]) :
            ( /\ BytesMatch(T)
              /\ \A d \in Descendants(T) : ~BytesMatch(d)
              /\ OnlyPath(Roots[1], T, Len(graph.nodes)) )
                => result = T

\* from_u8 has returned a type two edges below the root, as the claim says.
C2_Witness ==
    /\ pc = "done" /\ call.fn = "from_u8" /\ Roots # <<>>
    /\ result \in Supported
    /\ result \notin Children(Roots[1])
    /\ BytesMatch(result)
    /\ \A d \in Descendants(result) : ~BytesMatch(d)
    /\ OnlyPath(Roots[1], result, Len(graph.nodes))

---------------------------------------------------------------------------
(* C3.  At a node the walker visits, when the candidate matches a child p  *)
(* in TYPEORDER and a sibling s not in it, p is tested before s and the    *)
(* walk's result is p or a descendant of p, never s or a descendant of s.  *)
C3_PriorityWins ==
    \A r \in log :
        \A p, s \in Range(r.children) :
            (InPriorityList(p) /\ ~InPriorityList(s) /\ Matches(p) /\ Matches(s)) =>
                /\ Pos(r.children, p) < Pos(r.children, s)
                /\ r.result \in {p} \cup Descendants(p)
                /\ r.result \notin {s} \cup Descendants(s)

(* C3, amended.  At a node the walker visits, when the candidate matches a *)
(* child p in TYPEORDER and a sibling s not in it, p is ordered before s,  *)
(* s is not tested, and the walk's result is the first child in test       *)
(* order that matches, which is in TYPEORDER, or one of its descendants.   *)
C3_FirstPriorityWins ==
    \A r \in log :
        \A p, s \in Range(r.children) :
            (InPriorityList(p) /\ ~InPriorityList(s) /\ Matches(p) /\ Matches(s)) =>
                LET q == r.children[FirstMatch(r.children)]
                IN  /\ Pos(r.children, p) < Pos(r.children, s)
                    /\ s \notin Range(r.tested)
                    /\ InPriorityList(q)
                    /\ r.result \in {q} \cup Descendants(q)

\* A walk has returned from a node with a matching child in TYPEORDER and a
\* matching sibling that the graph enumerates before it.
C3_Witness ==
    \E r \in log :
        \E p, s \in Range(r.children) :
            /\ InPriorityList(p) /\ ~InPriorityList(s) /\ Matches(p) /\ Matches(s)
            /\ Pos(Neighbors(r.node), s) < Pos(Neighbors(r.node), p)
            /\ r.result = p

---------------------------------------------------------------------------
(* C4.  match_u8 and match_filepath return false, and invoke no module's   *)
(* predicate, for a type no module lists as supported.                     *)
C4_UnknownTypeNoMatch ==
    (pc = "done" /\ call.fn \in {"match_u8", "match_filepath"}
        /\ call.arg \notin Supported)
        => (result = FALSE /\ invoked = <<>>)

\* match_u8 has been called on a type no module supports, with modules
\* that answer true for a type they support.
C4_Witness ==
    /\ pc = "done" /\ call.fn = "match_u8"
    /\ call.arg \notin Supported
    /\ result = FALSE
    /\ \E m \in Supported : BytesMatch(m)

---------------------------------------------------------------------------
(* C5.  After graph_init every node of the graph is reachable along edges  *)
(* from all/all, the root from_u8 starts at.                               *)
C5_AllReachableFromRoot ==
    pc # "start" =>
        /\ Roots # <<>> /\ Roots[1] = "all/all"
        /\ Nodes \subseteq {"all/all"} \cup Descendants("all/all")

---------------------------------------------------------------------------
(* C6.  The children of a node the walker visits are tested in this order: *)
(* those in TYPEORDER first, in TYPEORDER's order, then the others in the  *)
(* order the graph enumerates them.                                        *)
C6_TypeOrderFirst ==
    \A c \in Calls :
        c.children =
            SelectSeq(<< "image/png", "image/jpeg", "image/gif", "application/zip",
                         "application/x-msdos-executable", "application/pdf" >>,
                      LAMBDA t : t \in Range(Neighbors(c.node)))
            \o SelectSeq(Neighbors(c.node), LAMBDA x : ~InPriorityList(x))

(* C6, amended.  The children of a node the walker visits are tested in    *)
(* this order: those in TYPEORDER first, in the reverse of the order the   *)
(* graph enumerates them, then the others in the order the graph           *)
(* enumerates them.                                                        *)
C6_TypeOrderFirstReversed ==
    \A c \in Calls :
        c.children =
            Reverse(SelectSeq(Neighbors(c.node), InPriorityList))
            \o SelectSeq(Neighbors(c.node), LAMBDA x : ~InPriorityList(x))

\* The walker has visited a node with two children in TYPEORDER and one not
\* in it, enumerated before them.
C6_Witness ==
    \E c \in Calls :
        /\ Len(SelectSeq(c.children, InPriorityList)) >= 2
        /\ Len(c.children) >= 3
        /\ ~InPriorityList(Neighbors(c.node)[1])

---------------------------------------------------------------------------
(* C7.  A walk from S returns None exactly when no child of S matches;     *)
(* otherwise, with c the first child in test order that matches, it        *)
(* returns what the walk from c returned when that is a match and c when   *)
(* it is not, and no child ordered after c is tested.                      *)
C7_GreedyNoBacktrack ==
    \A r \in log :
        LET k == FirstMatch(r.children)
        IN  /\ (r.result = None) <=> (\A c \in Children(r.node) : ~Matches(c))
            /\ k = 0 => r.tested = r.children
            /\ k > 0 =>
                  /\ r.tested = SubSeq(r.children, 1, k)
                  /\ \E rc \in log :
                        /\ rc.node = r.children[k]
                        /\ r.result = IF rc.result # None THEN rc.result
                                      ELSE r.children[k]

\* A walk has returned the first child that matched, the walk below it
\* having found nothing, though a later sibling matches too; and another
\* walk has returned a deeper match.
C7_Witness ==
    /\ \E r \in log :
          /\ Len(r.tested) > 0
          /\ r.result = r.tested[Len(r.tested)]
          /\ \E i \in (Len(r.tested) + 1)..Len(r.children) : Matches(r.children[i])
    /\ \E r \in log :
          /\ r.result # None
          /\ r.result \notin Children(r.node)

---------------------------------------------------------------------------
(* C8.  For every pair (child, parent) a module returns, both supported,   *)
(* the walker started at the parent has the child among the nodes it       *)
(* tests.                                                                  *)
C8_ParentEnumeratesChild ==
    \A c \in Calls :
        \A x \in subclasses :
            (x[1] \in Supported /\ x[2] \in Supported /\ x[2] = c.node)
                => x[1] \in Range(c.children)

---------------------------------------------------------------------------
(* C9.  After graph_init every node other than the four fallback nodes     *)
(* that no declared edge points at has exactly one synthetic edge, from    *)
(* text/plain when its top level is text, from all/all when it is inode,   *)
(* from application/octet-stream otherwise; the fallback nodes receive no  *)
(* synthetic edge.                                                         *)
C9_SyntheticAttachment ==
    pc = "ready" =>
        LET declared == {i \in 1..Len(graph.edges) : i <= Cardinality(edge_list)}
            synthetic == (1..Len(graph.edges)) \ declared
            parentless == {n \in Nodes : \A i \in declared : graph.edges[i][2] # n}
        IN  /\ \A i \in declared : graph.edges[i] \in edge_list
            /\ \A n \in parentless \ {"all/all", "all/allfiles", "text/plain",
                                      "application/octet-stream"} :
                  \E i \in synthetic :
                     /\ graph.edges[i][2] = n
                     /\ graph.edges[i][1] =
                           (CASE Toplevel(n) = "text" -> "text/plain"
                              [] Toplevel(n) = "inode" -> "all/all"
                              [] OTHER -> "application/octet-stream")
                     /\ \A j \in synthetic : graph.edges[j][2] = n => j = i
            /\ \A i \in synthetic :
                  /\ graph.edges[i][2] \in parentless
                  /\ graph.edges[i][2] \notin {"all/all", "all/allfiles", "text/plain",
                                               "application/octet-stream"}

\* graph_init has kept a declared edge and attached a text type and an
\* inode type, each to its fallback node.
C9_Witness ==
    /\ pc = "ready"
    /\ \E i \in 1..Len(graph.edges) : graph.edges[i] = << "text/plain", "text/html" >>
    /\ \E i \in 1..Len(graph.edges) : graph.edges[i] = << "all/all", "inode/directory" >>
    /\ edge_list # {}
    /\ Cardinality(edge_list_2) = 2

---------------------------------------------------------------------------
(* C10.  Every call of from_u8, from_filepath, from_u8_node and            *)
(* from_filepath_node returns, on a graph with a self-loop or a cycle too: *)
(* the walk never enters a recursion that does not return.                 *)
C10_WalkReturns ==
    Walking => pc # "overflow"
====
